---- MODULE Spec2Model ----
(***************************************************************************)
(* statusbot: the IRC event handlers of StatusBot (statusbot/bot.py), the  *)
(* broadcast protocol and the fan-out to the publishers.                   *)
(*                                                                         *)
(* The irc library runs one handler at a time on one thread, so every      *)
(* handler is one action.  What a handler sends and calls, in order, is    *)
(* kept in `trace` (the outbound IRC actions, the anti-flood sleeps, the   *)
(* publisher and log-sink calls of the most recent handler).  A publisher  *)
(* or log sink is seen through the calls it receives and through whether   *)
(* its back-end makes the call raise.                                      *)
(*                                                                         *)
(* Strings are TLC strings.  A channel message is the sequence of its      *)
(* tokens (words and runs of whitespace), preceded by the identify-msg     *)
(* marker character.                                                       *)
(*                                                                         *)
(* Besides the handlers run event after event (Spec, SpecRestore), the     *)
(* module follows what StatusPage and AlertFile store of the commands      *)
(* (SpecPublish), the operations of a StatusPage on its wiki page          *)
(* (SpecPage), and the event loop that calls the handlers while further    *)
(* events arrive (SpecLoop) and the server reports the topics the bot      *)
(* sets (SpecReports).                                                     *)
(***************************************************************************)
EXTENDS Integers, Sequences, FiniteSets, TLC

VARIABLES
    identify_msg_cap,   \* StatusBot.identify_msg_cap
    topics,             \* StatusBot.topics: dict channel -> saved topic
    current_topic,      \* StatusBot.current_topic: None or the alert text
    crashed,            \* an exception left a handler uncaught
    trace,              \* what the most recent handler sent and called, in order
    last,               \* the most recent event, and the state it was handled in
    negotiated,         \* history: identify-msg acked since the last welcome
    alertSnap,          \* history: topics right before the most recent alert
    streak,             \* history: alerts with one text in succession
    watch,              \* which history this run keeps besides `last`
    wiki,               \* the text of the wiki page StatusPage loads and saves
    alert_file,         \* the contents of alert.json
    status_page,        \* StatusPage.current_alert and StatusPage.items
    standing,           \* history: the latest alert or ok, and whether a call raised
    inbox,              \* the events the irc library has read and not yet dispatched
    arrived,            \* how many events it has read
    running,            \* the handlers called, with what each has still to send and call
    wire                \* what the handlers have sent and called so far, in order

vars == <<identify_msg_cap, topics, current_topic, crashed, trace, last,
          negotiated, alertSnap, streak, watch, wiki, alert_file, status_page, standing,
          inbox, arrived, running, wire>>

\* the event loop around the handlers
loop == <<inbox, arrived, running, wire>>

----------------------------------------------------------------------------
(* Bounds and configuration *)

\* free-text words a command carries at most
MaxTextWords == 2

\* log lines on the wiki page at most
MaxItems == 2

\* events the event loop reads in one run
MaxEvents == 4

ANTI_FLOOD_SLEEP == 2

\* [ircbot] channels=a,b  ->  ['#' + name ...]
channel_list == <<"#" \o "a", "#" \o "b">>

\* [ircbot] nicks=alice
nicks == <<"alice">>

\* [ircbot] pass
password == "secret"

\* _main: [StatusPage(config), AlertFile(config)] (no [twitter] section)
publishers == <<"StatusPage", "AlertFile">>

Range(s) == {s[i] : i \in DOMAIN s}

----------------------------------------------------------------------------
(* Python values *)

None == [isNone |-> TRUE, val |-> ""]
Some(s) == [isNone |-> FALSE, val |-> s]

\* topic == self.current_topic
EqOpt(s, opt) == ~opt.isNone /\ opt.val = s

EmptyDict == [k \in {} |-> ""]

\* dict.get(key, default)
get(d, key, default) == IF key \in DOMAIN d THEN d[key] ELSE default

\* d[key] = value
put(d, key, value) ==
    [k \in (DOMAIN d) \cup {key} |-> IF k = key THEN value ELSE d[k]]

Whitespace == {" ", "  "}

\* str.split(): the words, whitespace runs dropped
IsWord(t) == t \notin Whitespace
split(msg) == SelectSeq(msg, IsWord)

\* ' '.join(words)
RECURSIVE join(_)
join(ws) ==
    IF ws = <<>> THEN ""
    ELSE IF Len(ws) = 1 THEN ws[1]
    ELSE ws[1] \o " " \o join(Tail(ws))

\* parts[i:] (0-based i) of a list
slice_from(parts, i) ==
    IF Len(parts) <= i THEN <<>> ELSE SubSeq(parts, i + 1, Len(parts))

\* str.lower() on the verbs that occur
lower(w) ==
    CASE w = "ALERT" -> "alert"
      [] w = "Ok" -> "ok"
      [] OTHER -> w

Suffixes == {"", "es", "bot"}

\* str.startswith(prefix): the first token carries the prefix
startswith(msg, prefix) ==
    /\ Len(msg) > 0
    /\ \E s \in Suffixes : msg[1] = prefix \o s

----------------------------------------------------------------------------
(* What a handler emits *)

Ev(op, target, text) == [op |-> op, target |-> target, text |-> text, secs |-> 0]

\* time.sleep(ANTI_FLOOD_SLEEP)
Sleep == [op |-> "sleep", target |-> "", text |-> "", secs |-> ANTI_FLOOD_SLEEP]

\* StatusBot.notice
notice(channel, msg) == <<Ev("notice", channel, msg), Sleep>>

\* send without the anti-flood sleep
send_no_sleep(channel, msg) == <<Ev("privmsg", channel, msg)>>

\* StatusBot.send
send(channel, msg) == <<Ev("privmsg", channel, msg), Sleep>>

\* StatusBot.set_topic
set_topic(channel, topic) ==
    <<Ev("privmsg", "ChanServ", "topic " \o channel \o " " \o topic), Sleep>>

----------------------------------------------------------------------------
(* Publishers *)

\* Whether publisher p's operation can raise at all: StatusPage's four
\* operations all go through update() (login, load, save over HTTP);
\* AlertFile writes a file on alert and ok and inherits the no-op notice
\* and log of UpdateInterface.
\* What a publisher or log sink depends on: the three wiki pages share
\* WikiPage's url and login, AlertFile writes into [alertfile] dir.
BackEnd(p) == IF p = "AlertFile" THEN "alertdir" ELSE "wiki"

BackEnds == {"wiki", "alertdir"}

CanRaise(p, verb) ==
    \/ p = "StatusPage"
    \/ p = "AlertFile" /\ verb \in {"alert", "ok"}

\* for p in self.publishers: p.<verb>(text)
\* bad: the back-ends that fail now.  The first call that raises ends the
\* loop, the exception leaves it.
RECURSIVE fanout(_, _, _, _)
fanout(i, verb, text, bad) ==
    IF i > Len(publishers) THEN <<>>
    ELSE IF BackEnd(publishers[i]) \in bad /\ CanRaise(publishers[i], verb)
         THEN <<Ev("p." \o verb, publishers[i], text),
                Ev("raise", publishers[i], "")>>
         ELSE <<Ev("p." \o verb, publishers[i], text)>>
              \o fanout(i + 1, verb, text, bad)

Raised(out) == \E i \in DOMAIN out : out[i].op = "raise"

----------------------------------------------------------------------------
(* StatusPage and AlertFile *)

\* A text on the wiki page is the sequence of its pieces: the substrings
\* the page's regular expressions look for ("{{CI Alert|", "}}", "* ", the
\* newline) and the text between them.  A text of a command has no such
\* substring inside, or is one of them.
Pieces(s) == IF s = "" THEN <<>> ELSE <<s>>

NoneText == [isNone |-> TRUE, val |-> <<>>]
SomeText(t) == [isNone |-> FALSE, val |-> t]

\* if self.current_alert:
truthy(a) == ~a.isNone /\ a.val # <<>>

\* WikiPage.timestamp: the clock's reading, formatted
timestamp == "2014-06-01 12:00:00 UTC"

\* text.split('\n')
RECURSIVE split_lines(_)
split_lines(text) ==
    IF \A k \in DOMAIN text : text[k] # "\n" THEN <<text>>
    ELSE LET k == CHOOSE k \in DOMAIN text :
                      text[k] = "\n" /\ \A j \in 1..(k - 1) : text[j] # "\n"
         IN  <<SubSeq(text, 1, k - 1)>> \o split_lines(SubSeq(text, k + 1, Len(text)))

\* alert_re.match(line): group 1 ends at the first "}}" (.*? is not greedy)
alert_re(line) ==
    IF /\ Len(line) >= 2
       /\ line[1] = "{{CI Alert|"
       /\ \E k \in 2..Len(line) : line[k] = "}}"
    THEN LET k == CHOOSE k \in 2..Len(line) :
                      line[k] = "}}" /\ \A j \in 2..(k - 1) : line[j] # "}}"
         IN  SomeText(SubSeq(line, 2, k - 1))
    ELSE NoneText

\* item_re.match(line)
item_re(line) ==
    IF Len(line) >= 1 /\ line[1] = "* " THEN SomeText(Tail(line)) ELSE NoneText

\* the loop of loadItems over the lines
RECURSIVE load_lines(_, _)
load_lines(lines, p) ==
    IF lines = <<>> THEN p
    ELSE LET line == Head(lines)
             a == alert_re(line)
             m == item_re(line)
         IN  load_lines(Tail(lines),
                 [current_alert |-> IF a.isNone THEN p.current_alert ELSE a,
                  items |-> IF m.isNone THEN p.items ELSE Append(p.items, m.val)])

\* StatusPage.__init__: no alert, no items
NewPage == [current_alert |-> NoneText, items |-> <<>>]

\* StatusPage.loadItems
loadItems(text) == load_lines(split_lines(text), NewPage)

RECURSIVE item_lines(_)
item_lines(items) ==
    IF items = <<>> THEN <<>>
    ELSE <<"* ">> \o Head(items) \o <<"\n">> \o item_lines(Tail(items))

\* StatusPage.saveItems: the text it saves
saveItems(p) ==
    (IF truthy(p.current_alert)
     THEN <<"{{CI Alert|">> \o p.current_alert.val \o <<"}}", "\n", "\n">>
     ELSE <<>>)
    \o item_lines(p.items)

\* StatusPage.addItem
addItem(p, item) == [p EXCEPT !.items = << <<timestamp, " ">> \o item >> \o @]

\* StatusPage.setAlert
setAlert(p, current_alert) == [p EXCEPT !.current_alert = current_alert]

\* StatusPage.update on the page text `text`: the text it saves
update(text, set_alert, clear_alert, msg) ==
    LET p0 == loadItems(text)
        p1 == IF set_alert THEN setAlert(p0, SomeText(Pieces(msg))) ELSE p0
        p2 == IF clear_alert THEN setAlert(p1, NoneText) ELSE p1
        p3 == IF msg # "" THEN addItem(p2, Pieces(msg)) ELSE p2
    IN  saveItems(p3)

\* json.dumps(dict(alert=msg))
dumps(msg) ==
    "{\"alert\": " \o (IF msg.isNone THEN "null" ELSE "\"" \o msg.val \o "\"") \o "}"

\* the call publisher p received in `out` and returned from, if any
Returned(out, p) ==
    { k \in DOMAIN out :
        /\ out[k].target = p
        /\ out[k].op \in {"p.alert", "p.notice", "p.log", "p.ok"}
        /\ (k = Len(out) \/ out[k + 1].op # "raise") }

\* StatusPage.alert / notice / log / ok: the page text after the calls of `out`
wiki_after(text, out) ==
    IF Returned(out, "StatusPage") = {} THEN text
    ELSE LET ev == out[CHOOSE k \in Returned(out, "StatusPage") : TRUE]
         IN  update(text, ev.op = "p.alert", ev.op = "p.ok", ev.text)

\* AlertFile.alert / ok (notice and log write nothing): alert.json after
\* the calls of `out`
alert_file_after(file, out) ==
    LET ks == { k \in Returned(out, "AlertFile") : out[k].op \in {"p.alert", "p.ok"} }
    IN  IF ks = {} THEN file
        ELSE LET ev == out[CHOOSE k \in ks : TRUE]
             IN  dumps(IF ev.op = "p.alert" THEN Some(ev.text) ELSE None)

----------------------------------------------------------------------------
(* StatusBot *)

\* the body of broadcast's loop, for channel_list[i] onwards
RECURSIVE broadcast_from(_, _, _, _, _)
broadcast_from(i, prefix, msg, set_topic_, restore_topic) ==
    IF i > Len(channel_list) THEN <<>>
    ELSE LET channel == channel_list[i]
             t == get(topics, channel, channel)
         IN  (IF restore_topic THEN set_topic(channel, t) ELSE <<>>)
             \o (IF msg # "" THEN notice(channel, prefix \o msg) ELSE <<>>)
             \o (IF set_topic_ THEN set_topic(channel, msg) ELSE <<>>)
             \o broadcast_from(i + 1, prefix, msg, set_topic_, restore_topic)

\* broadcast that records and sets the topic whatever the flag says
broadcast_always_sets(prefix, msg, set_topic_, restore_topic) ==
    [current_topic |-> Some(msg),
     out |-> broadcast_from(1, prefix, msg, TRUE, restore_topic)]

\* broadcast that leaves out the first channel of the list
broadcast_skips_first(prefix, msg, set_topic_, restore_topic) ==
    [current_topic |-> IF set_topic_ THEN Some(msg) ELSE current_topic,
     out |-> broadcast_from(2, prefix, msg, set_topic_, restore_topic)]

\* StatusBot.broadcast
broadcast(prefix, msg, set_topic_, restore_topic) ==
    [current_topic |-> IF set_topic_ THEN Some(msg) ELSE current_topic,
     out |-> broadcast_from(1, prefix, msg, set_topic_, restore_topic)]

\* announce with the publishers called before the broadcast
announce_publish_first(channel, nick, verb, text, b, bad) ==
    LET fan == fanout(1, verb, text, bad)
    IN  [current_topic |-> b.current_topic,
         out |-> send(channel, nick \o ": sending " \o verb)
                 \o fan
                 \o b.out
                 \o (IF Raised(fan) THEN <<>>
                     ELSE send(channel, nick \o ": finished sending " \o verb)),
         raised |-> Raised(fan)]

\* a command that announces itself, broadcasts, calls the publishers and
\* announces that it finished; the last reply is reached only if no
\* publisher raised
announce(channel, nick, verb, text, b, bad) ==
    LET fan == fanout(1, verb, text, bad)
    IN  [current_topic |-> b.current_topic,
         out |-> send(channel, nick \o ": sending " \o verb)
                 \o b.out
                 \o fan
                 \o (IF Raised(fan) THEN <<>>
                     ELSE send(channel, nick \o ": finished sending " \o verb)),
         raised |-> Raised(fan)]

\* StatusBot.handle_status_command
handle_status_command(channel, nick, msg, bad) ==
    LET parts == split(msg)
    IN  IF Len(parts) < 2
        THEN \* parts[1]: IndexError
             [current_topic |-> current_topic, out |-> <<>>, raised |-> TRUE]
        ELSE
        LET command == lower(parts[2])
            text == join(slice_from(parts, 2))
        IN  CASE command = "alert" ->
                    announce(channel, nick, "alert", text,
                             broadcast("NOTICE: ", text, TRUE, FALSE), bad)
              [] command = "notice" ->
                    announce(channel, nick, "notice", text,
                             broadcast("NOTICE: ", text, FALSE, FALSE), bad)
              [] command = "log" ->
                    LET fan == fanout(1, "log", text, bad)
                    IN  [current_topic |-> current_topic,
                         out |-> fan
                                 \o (IF Raised(fan) THEN <<>>
                                     ELSE send(channel, nick \o ": finished logging")),
                         raised |-> Raised(fan)]
              [] command = "ok" ->
                    announce(channel, nick, "ok", text,
                             broadcast("NOTICE: ", text, FALSE, TRUE), bad)
              [] OTHER ->
                    [current_topic |-> current_topic,
                     out |-> send(channel, nick \o ": unknown command"),
                     raised |-> FALSE]

\* StatusBot.handle_success_command / handle_thanks_command
\* sink: "successlog" or "thankslog", whose log() raises if the wiki fails
handle_log_command(sink, page, channel, nick, msg, bad) ==
    LET parts == split(msg)
        text == join(slice_from(parts, 1))
        call == Ev(sink \o ".log", channel, nick \o " " \o text)
    IN  IF BackEnd(sink) \in bad
        THEN [out |-> <<call, Ev("raise", sink, "")>>, raised |-> TRUE]
        ELSE [out |-> <<call>>
                      \o send(channel, nick \o ": Added " \o page \o " page"),
              raised |-> FALSE]

handle_success_command(channel, nick, msg, bad) ==
    handle_log_command("successlog", "success to Success", channel, nick, msg, bad)

\* handle_thanks_command writing to the success log
handle_thanks_command_to_successlog(channel, nick, msg, bad) ==
    handle_log_command("successlog", "thanks to Thanks", channel, nick, msg, bad)

handle_thanks_command(channel, nick, msg, bad) ==
    handle_log_command("thankslog", "thanks to Thanks", channel, nick, msg, bad)

\* auth != '+'  (negated)
is_authenticated(auth) == auth = "+"

\* is_trusted with the membership test lost
is_trusted_anyone(nick) == TRUE

\* nick not in self.nicks  (negated)
is_trusted(nick) == nick \in Range(nicks)

\* e.source.split('!')[0]
source_nick(e) == e.source[1]

\* StatusBot.on_pubmsg: what it returns with.  crashed: an exception left
\* on_pubmsg (the try/except is around handle_status_command only).
pubmsg(e, bad) ==
    LET quiet == [current_topic |-> current_topic, out |-> <<>>, crashed |-> FALSE]
        nick == source_nick(e)
        auth == e.arguments[1][1]
        msg == Tail(e.arguments[1])
    IN  IF ~identify_msg_cap THEN quiet
        ELSE IF startswith(msg, "#success")
        THEN LET r == handle_success_command(e.target, nick, msg, bad)
             IN  [current_topic |-> current_topic, out |-> r.out, crashed |-> r.raised]
        ELSE IF startswith(msg, "#thanks")
        THEN LET r == handle_thanks_command(e.target, nick, msg, bad)
             IN  [current_topic |-> current_topic, out |-> r.out, crashed |-> r.raised]
        ELSE IF ~startswith(msg, "#status") THEN quiet
        ELSE IF ~is_authenticated(auth) THEN quiet
        ELSE IF ~is_trusted(nick) THEN quiet
        ELSE LET r == handle_status_command(e.target, nick, msg, bad)
             IN  \* except Exception: self.log.exception(...)
                 [current_topic |-> r.current_topic, out |-> r.out, crashed |-> FALSE]

\* update_saved_topic without the comparison with current_topic
update_saved_topic_always(channel, topic) == put(topics, channel, topic)

\* StatusBot.update_saved_topic
update_saved_topic(channel, topic) ==
    IF EqOpt(topic, current_topic) THEN topics
    ELSE put(topics, channel, topic)

Affixes == {"", " ", "multi-prefix "}

\* sub in s, for strings
contains(s, sub) == \E a \in Affixes, b \in Affixes : s = a \o sub \o b

\* StatusBot.on_cap: the value of identify_msg_cap it leaves
cap_acked(e) ==
    IF e.arguments[1] = "ACK" /\ contains(e.arguments[2], "identify-msg")
    THEN TRUE
    ELSE identify_msg_cap

\* on_welcome without the reset of the flag
welcome_cap_kept == identify_msg_cap

\* StatusBot.on_welcome: the value of identify_msg_cap it leaves
welcome_cap == FALSE

\* StatusBot.on_welcome: what it sends
welcome_out ==
    LET RECURSIVE joins(_)
        joins(i) == IF i > Len(channel_list) THEN <<>>
                    ELSE <<Ev("join", channel_list[i], ""), Sleep>> \o joins(i + 1)
    IN  <<Ev("cap", "REQ", "identify-msg"), Ev("cap", "END", ""),
          Ev("privmsg", "nickserv", "identify " \o password \o " ")>>
        \o joins(1)

----------------------------------------------------------------------------------------------------------------------------------------
(* Inbound events *)

Senders == {"alice", "mallory"}
Marks == {"+", "-"}
CapSubs == {"ACK", "NAK"}
CapArgs == {"identify-msg ", "multi-prefix identify-msg", "multi-prefix "}

\* the free text of n words, as the sender typed it and as one string
\* (n < 0: the text is a pair of closing braces)
RECURSIVE TextTokens(_)
TextTokens(n) ==
    IF n = 0 THEN <<>>
    ELSE IF n < 0 THEN <<" ", "}}">>
    ELSE <<"  ", "X">> \o TextTokens(n - 1)

RECURSIVE TextOf(_)
TextOf(n) ==
    IF n = 0 THEN ""
    ELSE IF n < 0 THEN "}}"
    ELSE IF n = 1 THEN "X" ELSE "X " \o TextOf(n - 1)

\* topics the server reports: the shortest alert text, or somebody's topic
TopicVals == {TextOf(1), "T"}

Blank == [kind |-> "", nick |-> "", auth |-> "", trigger |-> "", verb |-> "",
          n |-> 0, target |-> "", topic |-> "", sub |-> "", caps |-> ""]

Say(t, v, k) == [Blank EXCEPT !.kind = "pubmsg", !.trigger = t, !.verb = v, !.n = k]

\* what is said on a channel: trigger, verb (or none) and n words of text
Lines ==
    {Say("#status", "alert", k) : k \in 0..MaxTextWords}
    \cup {Say("#status", v, k) : v \in {"notice", "ok"}, k \in 0..1}
    \cup {Say("#status", "log", 1), Say("#status", "ALERT", 1),
          Say("#status", "bogus", 0), Say("#status", "", 0),
          Say("#statuses", "alert", 1),
          Say("#success", "", 1), Say("#thanks", "", 1), Say("hello", "", 0)}

\* the commands that reach the publishers' stores
PublishLines ==
    {Say("#status", "alert", k) : k \in {0 - 1, 0, 1}}
    \cup {Say("#status", "notice", k) : k \in 0..1}
    \cup {Say("#status", "ok", 0), Say("#status", "log", 1)}

\* an untrusted or unauthenticated sender says a few of them
FewLines ==
    {Say("#status", "alert", 1), Say("#status", "ok", 0), Say("#success", "", 1)}

Origin == channel_list[Len(channel_list)]

Messages ==
    { [l EXCEPT !.nick = s, !.auth = a, !.target = Origin] :
        l \in Lines, s \in {"alice"}, a \in {"+"} }
    \cup { [l EXCEPT !.nick = s, !.auth = a, !.target = Origin] :
        l \in FewLines, s \in Senders, a \in Marks }

PublishMessages ==
    { [l EXCEPT !.nick = "alice", !.auth = "+", !.target = Origin] : l \in PublishLines }

\* alert texts and items of a wiki page
PageAlerts ==
    {NoneText, SomeText(<<>>), SomeText(<<"X">>), SomeText(<<"X", "}}", "X">>)}
PageItems == {<<"hello">>, <<"X">>}

\* what the server sends while the event loop is watched
LoopEvents ==
    { [Blank EXCEPT !.kind = "cap", !.sub = "ACK", !.caps = "identify-msg "],
      [Blank EXCEPT !.kind = "topic", !.target = channel_list[1], !.topic = "T"] }
    \cup { [l EXCEPT !.nick = "alice", !.auth = "+", !.target = Origin] :
             l \in {Say("#status", "alert", 1), Say("#status", "ok", 0)} }

\* what is said while the server's reports of the bot's topic changes are
\* watched: alerts with two texts, an ok
ReportEvents ==
    { [Blank EXCEPT !.kind = "cap", !.sub = "ACK", !.caps = "identify-msg "] }
    \cup { [l EXCEPT !.nick = "alice", !.auth = "+", !.target = Origin] :
             l \in {Say("#status", "alert", 1), Say("#status", "alert", 2),
                    Say("#status", "ok", 0)} }

\* a failing back-end matters to a message that may reach one
Failures(i) ==
    IF i.trigger \in {"#success", "#thanks"} \/ (i.nick = "alice" /\ i.auth = "+")
    THEN SUBSET BackEnds
    ELSE {{}}

TopicReports(kind) ==
    { [Blank EXCEPT !.kind = kind, !.target = c, !.topic = t] :
        c \in Range(channel_list), t \in TopicVals }

CapReplies ==
    { [Blank EXCEPT !.kind = "cap", !.sub = s, !.caps = a] :
        s \in CapSubs, a \in CapArgs }

\* the irc library's Event for each
PubmsgEvent(i) ==
    [source |-> <<i.nick, "user@host">>,
     target |-> i.target,
     arguments |-> << <<i.auth, i.trigger>>
                      \o (IF i.verb = "" THEN <<>> ELSE <<" ", i.verb>>)
                      \o TextTokens(i.n) >>]

TopicEvent(i) == [target |-> i.target, arguments |-> <<i.topic>>]

CurrentTopicEvent(i) == [target |-> "statusbot", arguments |-> <<i.target, i.topic>>]

CapEvent(i) == [target |-> "statusbot", arguments |-> <<i.sub, i.caps>>]

----------------------------------------------------------------------------
(* History *)

NoSnap == [valid |-> FALSE, topics |-> EmptyDict]
NoStreak == [n |-> 0, text |-> "", topics |-> EmptyDict]

Pre == [topics |-> topics, current_topic |-> current_topic,
        cap |-> identify_msg_cap, negotiated |-> negotiated, snap |-> alertSnap,
        wiki |-> wiki, page |-> status_page]

Trusted == {"alice"}

\* a privileged command the authorizer has to admit
Admitted(i, neg) ==
    /\ i.kind = "pubmsg"
    /\ neg
    /\ i.trigger \in {"#status", "#statuses"}
    /\ i.auth = "+"
    /\ i.nick \in Trusted

VerbOf(i) == IF i.verb = "ALERT" THEN "alert" ELSE i.verb

AckNames == {"identify-msg", "identify-msg ", "multi-prefix identify-msg"}
IsAck(i) == i.kind = "cap" /\ i.sub = "ACK" /\ i.caps \in AckNames

\* the topics right before the most recent admitted alert, until the next ok
SnapAfter(i) ==
    IF watch # "restore" THEN alertSnap
    ELSE IF Admitted(i, negotiated) /\ VerbOf(i) = "alert"
    THEN [valid |-> TRUE, topics |-> topics]
    ELSE IF Admitted(i, negotiated) /\ VerbOf(i) = "ok" THEN NoSnap
    ELSE alertSnap

\* n admitted alerts with one text in succession (2: two or more), with
\* nothing in between but reports of that text as a topic and messages
\* that are no command; topics: the cache before the first of them
StreakAfter(i) ==
    IF Admitted(i, negotiated) /\ i.verb # ""
    THEN IF VerbOf(i) = "alert"
         THEN IF streak.n >= 1 /\ streak.text = TextOf(i.n)
              THEN [streak EXCEPT !.n = 2]
              ELSE [n |-> 1, text |-> TextOf(i.n), topics |-> topics]
         ELSE NoStreak
    ELSE IF i.kind \in {"topic", "currenttopic"}
    THEN IF streak.n >= 1 /\ i.topic = streak.text THEN streak ELSE NoStreak
    ELSE streak

\* the text of the latest alert the bot acted on (None after an ok), and
\* whether every publisher call so far returned
NoStanding == [alert |-> None, clean |-> TRUE]

StandingAfter(i, out) ==
    IF watch # "publish" THEN standing
    ELSE [alert |-> IF Admitted(i, identify_msg_cap) /\ VerbOf(i) = "alert"
                    THEN Some(TextOf(i.n))
                    ELSE IF Admitted(i, identify_msg_cap) /\ VerbOf(i) = "ok"
                    THEN None
                    ELSE standing.alert,
          clean |-> standing.clean /\ ~Raised(out)]

Record(i) ==
    /\ last' = i @@ [pre |-> Pre]
    /\ alertSnap' = SnapAfter(i)
    /\ streak' = StreakAfter(i)
    /\ watch' = watch

----------------------------------------------------------------------------
(* The handlers *)

Start ==
    /\ identify_msg_cap = FALSE
    /\ topics = EmptyDict
    /\ current_topic = None
    /\ crashed = FALSE
    /\ trace = <<>>
    /\ last = Blank @@ [pre |-> [topics |-> EmptyDict, current_topic |-> None,
                                 cap |-> FALSE, negotiated |-> FALSE, snap |-> NoSnap,
                                 wiki |-> <<>>, page |-> NewPage]]
    /\ negotiated = FALSE
    /\ alertSnap = NoSnap
    /\ streak = NoStreak
    /\ wiki = <<>>
    /\ alert_file = dumps(None)
    /\ status_page = NewPage
    /\ standing = NoStanding
    /\ inbox = <<>>
    /\ arrived = 0
    /\ running = <<>>
    /\ wire = <<>>

Init == Start /\ watch = "none"

InitRestore == Start /\ watch = "restore"

InitPublish == Start /\ watch = "publish"

InitPage == Start /\ watch = "page"

InitLoop == Start /\ watch = "loop"

InitReports == Start /\ watch = "reports"

on_welcome ==
    /\ ~crashed
    /\ identify_msg_cap' = welcome_cap
    /\ trace' = welcome_out
    /\ negotiated' = FALSE
    /\ Record([Blank EXCEPT !.kind = "welcome"])
    /\ UNCHANGED <<topics, current_topic, crashed>>
    /\ UNCHANGED <<wiki, alert_file, status_page, standing>>

on_cap(i) ==
    /\ ~crashed
    /\ identify_msg_cap' = cap_acked(CapEvent(i))
    /\ trace' = <<>>
    /\ negotiated' = (negotiated \/ IsAck(i))
    /\ Record(i)
    /\ UNCHANGED <<topics, current_topic, crashed>>
    /\ UNCHANGED <<wiki, alert_file, status_page, standing>>

\* The publishers' stores (the wiki page, alert.json), which the bot never
\* reads, are followed in the runs that watch them, up to MaxItems log
\* lines on the page.
on_pubmsg(i, bad) ==
    /\ ~crashed
    /\ watch = "publish" => Len(loadItems(wiki).items) < MaxItems
    /\ LET r == pubmsg(PubmsgEvent(i), bad)
       IN  /\ current_topic' = r.current_topic
           /\ trace' = r.out
           /\ crashed' = r.crashed
           /\ wiki' = IF watch = "publish" THEN wiki_after(wiki, r.out) ELSE wiki
           /\ alert_file' = IF watch = "publish"
                            THEN alert_file_after(alert_file, r.out) ELSE alert_file
           /\ standing' = StandingAfter(i, r.out)
    /\ Record(i)
    /\ UNCHANGED <<identify_msg_cap, topics, negotiated, status_page>>

on_currenttopic(i) ==
    /\ ~crashed
    /\ LET e == CurrentTopicEvent(i)
       IN  topics' = update_saved_topic(e.arguments[1], e.arguments[2])
    /\ trace' = <<>>
    /\ Record(i)
    /\ UNCHANGED <<identify_msg_cap, current_topic, crashed, negotiated>>
    /\ UNCHANGED <<wiki, alert_file, status_page, standing>>

on_topic(i) ==
    /\ ~crashed
    /\ LET e == TopicEvent(i)
       IN  topics' = update_saved_topic(e.target, e.arguments[1])
    /\ trace' = <<>>
    /\ Record(i)
    /\ UNCHANGED <<identify_msg_cap, current_topic, crashed, negotiated>>
    /\ UNCHANGED <<wiki, alert_file, status_page, standing>>

\* Event after event, each handled as it arrives.
Next ==
    \/ on_welcome /\ UNCHANGED loop
    \/ \E i \in CapReplies : on_cap(i) /\ UNCHANGED loop
    \/ \E i \in Messages : \E bad \in Failures(i) : on_pubmsg(i, bad) /\ UNCHANGED loop
    \/ \E i \in TopicReports("currenttopic") : on_currenttopic(i) /\ UNCHANGED loop
    \/ \E i \in TopicReports("topic") : on_topic(i) /\ UNCHANGED loop

Spec == Init /\ [][Next]_vars

SpecRestore == InitRestore /\ [][Next]_vars

\* Command after command, and what StatusPage and AlertFile store of them.
NextPublish ==
    \/ \E i \in CapReplies : on_cap(i) /\ UNCHANGED loop
    \/ \E i \in PublishMessages : \E bad \in SUBSET BackEnds :
          on_pubmsg(i, bad) /\ UNCHANGED loop

SpecPublish == InitPublish /\ [][NextPublish]_vars

\* The operations of one StatusPage on its wiki page, in any order.
PageStep(kind) ==
    /\ trace' = <<>>
    /\ Record([Blank EXCEPT !.kind = kind])
    /\ UNCHANGED <<identify_msg_cap, topics, current_topic, crashed, negotiated,
                   alert_file, standing>>
    /\ UNCHANGED loop

StatusPage_setAlert(a) ==
    /\ status_page' = setAlert(status_page, a)
    /\ wiki' = wiki
    /\ PageStep("setAlert")

StatusPage_addItem(item) ==
    /\ Len(status_page.items) < MaxItems
    /\ status_page' = addItem(status_page, item)
    /\ wiki' = wiki
    /\ PageStep("addItem")

StatusPage_saveItems ==
    /\ wiki' = saveItems(status_page)
    /\ status_page' = status_page
    /\ PageStep("saveItems")

StatusPage_loadItems ==
    /\ status_page' = loadItems(wiki)
    /\ wiki' = wiki
    /\ PageStep("loadItems")

NextPage ==
    \/ \E a \in PageAlerts : StatusPage_setAlert(a)
    \/ \E item \in PageItems : StatusPage_addItem(item)
    \/ StatusPage_saveItems
    \/ StatusPage_loadItems

SpecPage == InitPage /\ [][NextPage]_vars

\* The event loop: the irc library reads events from the server as they
\* come and calls the handler of the oldest one; what the handler sends
\* and calls happens step by step (each step ends in the blocking IRC
\* call, sleep or publisher call), its changes of the bot's fields with
\* the call.
process_data(i) ==
    /\ arrived < MaxEvents
    /\ arrived' = arrived + 1
    /\ inbox' = Append(inbox, [id |-> arrived + 1, ev |-> i])
    /\ UNCHANGED <<identify_msg_cap, topics, current_topic, crashed, trace, last,
                   negotiated, alertSnap, streak, watch, wiki, alert_file,
                   status_page, standing, running, wire>>

Unfinished == { k \in DOMAIN running : running[k].out # <<>> }

\* a handler that starts a thread for the command and returns at once
handler_detached == TRUE

\* A handler is a plain method call of the loop's thread: the loop gets
\* control back when the handler has run to its end.
handler_returned == Unfinished = {}

dispatch ==
    /\ inbox # <<>>
    /\ handler_returned
    /\ LET i == Head(inbox).ev
       IN  \/ i.kind = "cap" /\ on_cap(i)
           \/ i.kind = "pubmsg" /\ \E bad \in Failures(i) : on_pubmsg(i, bad)
           \/ i.kind = "topic" /\ on_topic(i)
    /\ running' = Append(SelectSeq(running, LAMBDA h : h.out # <<>>),
                         [of |-> Head(inbox).id, out |-> trace', cmd |-> Head(inbox).ev])
    /\ inbox' = Tail(inbox)
    /\ UNCHANGED <<arrived, wire>>

\* The channel and topic of the topic change handler h asks ChanServ for
\* in its next step, if it is one: the text of its alert, or a saved
\* topic or channel name it restores.
TopicChange(h) ==
    { ct \in Range(channel_list)
             \X ({TextOf(h.cmd.n)} \cup Range(channel_list)
                 \cup {topics[c] : c \in DOMAIN topics}) :
        Head(h.out) = set_topic(ct[1], ct[2])[1] }

\* What the server sends back on it: ChanServ's change of the topic is
\* reported to the channel, the bot included (on_topic).  The report says
\* which command's topic it is.
topic_reports(h) ==
    IF h.cmd.kind # "pubmsg" \/ TopicChange(h) = {} THEN <<>>
    ELSE LET ct == CHOOSE ct \in TopicChange(h) : TRUE
         IN  << [id |-> 0,
                 ev |-> [Blank EXCEPT !.kind = "topic", !.nick = "ChanServ",
                                      !.verb = VerbOf(h.cmd),
                                      !.target = ct[1], !.topic = ct[2]]] >>

\* the next thing handler k sends or calls, and what comes back on it
send_next(k, reports) ==
    /\ wire' = Append(wire, [of |-> running[k].of, ev |-> Head(running[k].out)])
    /\ running' = [running EXCEPT ![k].out = Tail(@)]
    /\ inbox' = inbox \o reports
    /\ UNCHANGED <<identify_msg_cap, topics, current_topic, crashed, trace, last,
                   negotiated, alertSnap, streak, watch, wiki, alert_file,
                   status_page, standing, arrived>>

step(k) == send_next(k, <<>>)

step_reported(k) == send_next(k, topic_reports(running[k]))

NextLoop ==
    \/ \E i \in LoopEvents : process_data(i)
    \/ dispatch
    \/ \E k \in Unfinished : step(k)

SpecLoop == InitLoop /\ [][NextLoop]_vars

\* The event loop with the server's reports of the topics the bot sets:
\* they arrive after the change was asked for, behind whatever was said
\* on the channels before.
NextReports ==
    \/ \E i \in ReportEvents : process_data(i)
    \/ dispatch
    \/ \E k \in Unfinished : step_reported(k)

SpecReports == InitReports /\ [][NextReports]_vars

----------------------------------------------------------------------------
(* Reading the trace of the most recent handler *)

PubOps == {"p.alert", "p.notice", "p.log", "p.ok"}
IsPubCall(ev) == ev.op \in PubOps
IsReply(ev) == ev.op = "privmsg" /\ ev.target = last.target
IsTopicSet(ev) == ev.op = "privmsg" /\ ev.target = "ChanServ"
IsBroadcast(ev) == ev.op = "notice" \/ IsTopicSet(ev)

PubCalls == SelectSeq(trace, IsPubCall)
Replies == SelectSeq(trace, IsReply)
TopicSets == SelectSeq(trace, IsTopicSet)

TopicSet(c, t) == Ev("privmsg", "ChanServ", "topic " \o c \o " " \o t)

\* the calls p.<verb>(text), one per publisher, in registration order
AllCalled(verb, text) ==
    [k \in 1..Len(publishers) |-> Ev("p." \o verb, publishers[k], text)]

LastAdmitted == Admitted(last, last.pre.negotiated)
LastVerb == VerbOf(last)
LastText == TextOf(last.n)

StateKept ==
    /\ topics = last.pre.topics
    /\ current_topic = last.pre.current_topic
    /\ identify_msg_cap = last.pre.cap

----------------------------------------------------------------------------
(* C1 *)

UnauthorizedStatus ==
    /\ last.kind = "pubmsg"
    /\ last.trigger \in {"#status", "#statuses"}
    /\ (last.auth # "+" \/ last.nick \notin Trusted)

\* C1: a channel message that begins with #status and whose sender is not
\* marked '+' or is not a trusted nick invokes no publisher operation,
\* leaves current_topic and topics as they were, and is not answered on
\* the channel.
C1_UnauthorizedHasNoEffect ==
    UnauthorizedStatus =>
        /\ \A k \in DOMAIN trace :
              /\ ~IsPubCall(trace[k])
              /\ ~(trace[k].op \in {"privmsg", "notice"} /\ trace[k].target = last.target)
        /\ topics = last.pre.topics
        /\ current_topic = last.pre.current_topic

\* an authenticated but untrusted nick asks for an alert, the capability
\* negotiated, a topic saved and an alert active
C1_Witness ==
    /\ UnauthorizedStatus
    /\ last.nick = "mallory" /\ last.auth = "+" /\ last.verb = "alert"
    /\ last.pre.cap
    /\ last.pre.topics # EmptyDict
    /\ ~last.pre.current_topic.isNone

----------------------------------------------------------------------------
(* C2 *)

\* C2: a channel message handled while identify-msg has not been
\* acknowledged since the most recent welcome has no effect at all (nothing
\* sent, nothing called, no state changed); every welcome resets the flag,
\* and the flag is set exactly when an ACK naming identify-msg has arrived
\* since.
C2_CapabilityGate ==
    /\ (last.kind = "pubmsg" /\ ~last.pre.negotiated) =>
          trace = <<>> /\ StateKept /\ ~crashed
    /\ last.kind = "welcome" => ~identify_msg_cap
    /\ identify_msg_cap = negotiated
    /\ (identify_msg_cap /\ ~last.pre.cap) => IsAck(last)

\* a trusted, authenticated alert arrives after a reconnect and before the
\* new acknowledgement, while the alert of the previous session is active
C2_Witness ==
    /\ last.kind = "pubmsg" /\ ~last.pre.negotiated
    /\ last.nick = "alice" /\ last.auth = "+"
    /\ last.trigger = "#status" /\ last.verb = "alert"
    /\ ~last.pre.current_topic.isNone

----------------------------------------------------------------------------
(* C3 *)

\* C3: after a trusted, authenticated 'alert X' handled while no alert was
\* active, current_topic is X, a topic-set to X was issued for every
\* channel, and every publisher received alert(X) exactly once, in
\* registration order.
C3_AlertFansOut ==
    (LastAdmitted /\ LastVerb = "alert" /\ last.pre.current_topic.isNone) =>
        /\ current_topic = Some(LastText)
        /\ \A c \in Range(channel_list) :
              \E k \in DOMAIN trace : trace[k] = TopicSet(c, LastText)
        /\ PubCalls = AllCalled("alert", LastText)

----------------------------------------------------------------------------
(* C4 *)

\* C4: the topic an 'ok' sets on each channel is the topic that was saved
\* for the channel right before the preceding 'alert', or the channel's
\* name if none was saved.
C4_OkRestoresPreAlertTopic ==
    (LastAdmitted /\ LastVerb = "ok" /\ last.pre.snap.valid) =>
        TopicSets = [k \in 1..Len(channel_list) |->
                        TopicSet(channel_list[k],
                                 get(last.pre.snap.topics, channel_list[k],
                                     channel_list[k]))]

----------------------------------------------------------------------------
(* C5 *)

NoAlert(t) == t.isNone \/ t.val = ""

\* C5: current_topic changes only in an admitted alert or ok command, and
\* after an ok no alert text remains stored.
C5_OkClearsAlertState ==
    /\ current_topic # last.pre.current_topic =>
          LastAdmitted /\ LastVerb \in {"alert", "ok"}
    /\ (LastAdmitted /\ LastVerb = "ok") => NoAlert(current_topic)

----------------------------------------------------------------------------
(* C6 *)

\* C6: after 'alert X' was issued twice or more in succession, whatever
\* reports of the topic X arrived in between and after, the saved topics
\* are the ones saved before the first of the alerts.
C6_RepeatedAlertKeepsSavedTopics ==
    streak.n = 2 => topics = streak.topics

\* the channel reports the alert text as its topic after the second alert,
\* a topic saved
C6_Witness ==
    /\ streak.n = 2
    /\ last.kind = "topic" /\ last.topic = streak.text
    /\ last.target \in DOMAIN topics

----------------------------------------------------------------------------
(* C7 *)

\* C7: if a publisher's operation raises, every publisher registered after
\* it still receives the same call.
C7_PublisherFailureIsolated ==
    \A j \in 1..Len(publishers) : \A k \in DOMAIN trace :
        (trace[k].op = "raise" /\ trace[k].target = publishers[j] /\ k > 1) =>
            \A m \in (j + 1)..Len(publishers) :
                \E q \in DOMAIN trace :
                    trace[q] = [trace[k - 1] EXCEPT !.target = publishers[m]]

----------------------------------------------------------------------------
(* C8 *)

\* C8: an admitted alert, notice or ok is answered exactly twice on the
\* channel it came from, first before anything else the command does and
\* last after everything else, also when a publisher fails; an admitted
\* command with an unknown verb is answered once with 'unknown command',
\* calls no publisher and changes no state.
C8_TwoReplies ==
    /\ (LastAdmitted /\ LastVerb \in {"alert", "notice", "ok"}) =>
          /\ Replies = <<Ev("privmsg", last.target, last.nick \o ": sending " \o LastVerb),
                         Ev("privmsg", last.target,
                            last.nick \o ": finished sending " \o LastVerb)>>
          /\ IsReply(trace[1])
          /\ IsReply(trace[Len(trace) - 1])
    /\ (LastAdmitted /\ LastVerb = "bogus") =>
          /\ Replies = <<Ev("privmsg", last.target, last.nick \o ": unknown command")>>
          /\ PubCalls = <<>>
          /\ StateKept

----------------------------------------------------------------------------
(* C9 *)

\* what the broadcast of the command has to issue for channel c
Expected(c) ==
    CASE LastVerb = "alert" -> {TopicSet(c, LastText)}
               \cup (IF LastText = "" THEN {} ELSE {Ev("notice", c, "NOTICE: " \o LastText)})
      [] LastVerb = "ok" -> {TopicSet(c, get(last.pre.topics, c, c))}
               \cup (IF LastText = "" THEN {} ELSE {Ev("notice", c, "NOTICE: " \o LastText)})
      [] LastVerb = "notice" ->
               IF LastText = "" THEN {} ELSE {Ev("notice", c, "NOTICE: " \o LastText)}
      [] OTHER -> {}

\* C9: the publishers a command calls are called in registration order,
\* and when the first of them is called every notice, topic restore and
\* topic set of the command has been issued, for every channel.
C9_PublishersAfterBroadcast ==
    /\ \E m \in 0..Len(publishers) :
          [k \in 1..Len(PubCalls) |-> PubCalls[k].target] = SubSeq(publishers, 1, m)
    /\ \A j \in DOMAIN trace : IsPubCall(trace[j]) =>
          /\ \A k \in DOMAIN trace : IsBroadcast(trace[k]) => k < j
          /\ LastAdmitted =>
                \A c \in Range(channel_list) : \A ev \in Expected(c) :
                    \E k \in 1..(j - 1) : trace[k] = ev

\* an ok with a closing note restores a saved topic, notifies the channels
\* and reaches every publisher
C9_Witness ==
    /\ LastAdmitted /\ LastVerb = "ok" /\ LastText # ""
    /\ last.pre.topics # EmptyDict
    /\ Len(PubCalls) = Len(publishers)
    /\ \E k \in DOMAIN trace : trace[k].op = "notice"

----------------------------------------------------------------------------
(* C10 *)

\* C10: an admitted command line that is the trigger alone is answered
\* with 'unknown command', calls no publisher, changes no state and does
\* not stop the bot.
C10_MissingVerbIsUnknownCommand ==
    (LastAdmitted /\ last.trigger = "#status" /\ last.verb = "") =>
        /\ Replies = <<Ev("privmsg", last.target, last.nick \o ": unknown command")>>
        /\ PubCalls = <<>>
        /\ StateKept
        /\ ~crashed

----------------------------------------------------------------------------
(* C11 *)

\* C11: no failure raised while a channel message is handled (a privileged
\* command, a success or thanks command, a failing publisher or log sink)
\* leaves the message handler.
C11_NoFailureLeavesHandler ==
    last.kind = "pubmsg" => ~crashed

----------------------------------------------------------------------------
(* C12 *)

Notices == SelectSeq(trace, LAMBDA ev : ev.op = "notice")

NoticeToAll(text) ==
    [k \in 1..Len(channel_list) |-> Ev("notice", channel_list[k], "NOTICE: " \o text)]

FirstPubCall ==
    CHOOSE j \in DOMAIN trace :
        IsPubCall(trace[j]) /\ \A k \in 1..(j - 1) : ~IsPubCall(trace[k])

\* the calls are p.<verb>(text) to the publishers in registration order,
\* the first of them at least
CallsInOrder(verb, text) ==
    /\ PubCalls # <<>>
    /\ Len(PubCalls) <= Len(publishers)
    /\ PubCalls = SubSeq(AllCalled(verb, text), 1, Len(PubCalls))

\* C12: notice and log leave current_topic and topics unchanged and set
\* no topic; a notice with text sends the notice to every channel before
\* the first publisher receives notice(text); a log sends no notice and
\* calls log(text) on the publishers.
C12_NoticeAndLogFrame ==
    (LastAdmitted /\ LastVerb \in {"notice", "log"}) =>
        /\ StateKept
        /\ TopicSets = <<>>
        /\ CallsInOrder(LastVerb, LastText)
        /\ (LastVerb = "notice" /\ LastText # "") =>
              /\ Notices = NoticeToAll(LastText)
              /\ \A k \in DOMAIN trace : trace[k].op = "notice" => k < FirstPubCall
        /\ (LastVerb = "log" \/ LastText = "") => Notices = <<>>

\* a notice with text while an alert is active and a topic is saved
C12_Witness ==
    /\ LastAdmitted /\ LastVerb = "notice" /\ LastText # ""
    /\ ~last.pre.current_topic.isNone
    /\ last.pre.topics # EmptyDict
    /\ Len(PubCalls) = Len(publishers)

----------------------------------------------------------------------------
(* C13 *)

LogCommand ==
    /\ last.kind = "pubmsg"
    /\ last.pre.negotiated
    /\ last.trigger \in {"#success", "#thanks"}

SinkOps == {"successlog.log", "thankslog.log"}
SinkCalls == SelectSeq(trace, LAMBDA ev : ev.op \in SinkOps)
SinkRaised ==
    \E k \in DOMAIN trace :
        trace[k].op = "raise" /\ trace[k].target \in {"successlog", "thankslog"}

\* the log call the command has to make, and the reply it has to send
TheLogCall ==
    Ev((IF last.trigger = "#success" THEN "successlog" ELSE "thankslog") \o ".log",
       last.target, last.nick \o " " \o LastText)

TheLogReply ==
    Ev("privmsg", last.target,
       last.nick \o (IF last.trigger = "#success"
                     THEN ": Added success to Success page"
                     ELSE ": Added thanks to Thanks page"))

LogFrame ==
    /\ PubCalls = <<>>
    /\ StateKept
    /\ \A k \in DOMAIN trace : ~IsBroadcast(trace[k])

----------------------------------------------------------------------------
(* C14 *)

\* bot.py has no save sequence and no recording flag: the bot is never in
\* a recording mode
RecordingMode == FALSE

\* C14: a topic report (on_currenttopic, on_topic) changes topics only
\* while the bot is in recording mode.
C14_RecordedOnlyWhileRecording ==
    (last.kind \in {"topic", "currenttopic"} /\ topics # last.pre.topics) =>
        RecordingMode

----------------------------------------------------------------------------
(* C17 *)

\* what broadcast has to issue for the channels from the k-th on: per
\* channel the restore, the notice, the topic set
RECURSIVE BroadcastPlan(_)
BroadcastPlan(k) ==
    IF k > Len(channel_list) THEN <<>>
    ELSE LET c == channel_list[k]
         IN  (IF LastVerb = "ok"
              THEN <<TopicSet(c, IF c \in DOMAIN last.pre.topics
                                 THEN last.pre.topics[c] ELSE c)>>
              ELSE <<>>)
             \o (IF LastText # ""
                 THEN <<Ev("notice", c, "NOTICE: " \o LastText)>> ELSE <<>>)
             \o (IF LastVerb = "alert" THEN <<TopicSet(c, LastText)>> ELSE <<>>)
             \o BroadcastPlan(k + 1)

\* C17: the broadcast of an alert, notice or ok visits every channel once,
\* in the order of the channel list, and issues per channel the topic
\* restore (ok only: the saved topic or the channel's name), then the
\* notice (only with text), then the topic set (alert only).
C17_BroadcastOrder ==
    (LastAdmitted /\ LastVerb \in {"alert", "notice", "ok"}) =>
        SelectSeq(trace, IsBroadcast) = BroadcastPlan(1)

\* an ok without text, a topic saved for one channel and none for another:
\* the topics are restored and no notice is sent
C17_Witness ==
    /\ LastAdmitted /\ LastVerb = "ok" /\ LastText = ""
    /\ \E c \in Range(channel_list) : c \in DOMAIN last.pre.topics
    /\ \E c \in Range(channel_list) : c \notin DOMAIN last.pre.topics
    /\ Len(TopicSets) = Len(channel_list)
    /\ Notices = <<>>

----------------------------------------------------------------------------
(* C18 *)

IsOutbound(ev) == ev.op \in {"privmsg", "notice"}

\* C18: while a channel message is handled, every outbound IRC action
\* (reply, notice, topic set) is followed at once by the anti-flood sleep,
\* so no two of them follow each other without it.
C18_SleepAfterEveryAction ==
    last.kind = "pubmsg" =>
        \A k \in DOMAIN trace : IsOutbound(trace[k]) =>
            /\ k < Len(trace)
            /\ trace[k + 1].op = "sleep"
            /\ trace[k + 1].secs = ANTI_FLOOD_SLEEP

\* an alert with text: two replies, and a notice and a topic set per channel
C18_Witness ==
    /\ LastAdmitted /\ LastVerb = "alert" /\ LastText # ""
    /\ Len(Replies) = 2
    /\ Len(SelectSeq(trace, IsBroadcast)) = 2 * Len(channel_list)

----------------------------------------------------------------------------
(* C19 *)

\* C19: after an ok has restored the topics, the topic cache is empty.
C19_OkConsumesCache ==
    (LastAdmitted /\ LastVerb = "ok") => topics = EmptyDict

----------------------------------------------------------------------------
(* C15 *)

ItemsOn(text) == loadItems(text).items

\* the lines of the page that begin like an alert marker
MarkerLines(text) ==
    SelectSeq(split_lines(text),
              LAMBDA line : Len(line) >= 1 /\ line[1] = "{{CI Alert|")

\* C15: after any sequence of alert, notice, log and ok commands in which
\* no publisher call raised, alert.json holds {"alert": X} and the wiki
\* page carries the marker line {{CI Alert|X}} if the latest alert or ok
\* was "alert X" (X not empty), alert.json holds {"alert": null} and the
\* page carries no marker if it was an ok or there was none, and a command
\* with text has added one timestamped log line for the text to the page.
C15_PublishersAgree ==
    (watch = "publish" /\ standing.clean) =>
        /\ alert_file = dumps(standing.alert)
        /\ (~standing.alert.isNone /\ standing.alert.val # "") =>
              MarkerLines(wiki) =
                  << <<"{{CI Alert|">> \o Pieces(standing.alert.val) \o <<"}}">> >>
        /\ standing.alert.isNone => MarkerLines(wiki) = <<>>
        /\ (Admitted(last, last.pre.cap) /\ LastText # ""
            /\ LastVerb \in {"alert", "notice", "log", "ok"}) =>
              ItemsOn(wiki) =
                  << <<timestamp, " ">> \o Pieces(LastText) >> \o ItemsOn(last.pre.wiki)

----------------------------------------------------------------------------
(* C16 *)

Falsy(a) == a.isNone \/ a.val = <<>>

SamePage(p, q) ==
    /\ p.items = q.items
    /\ (p.current_alert = q.current_alert
        \/ (Falsy(p.current_alert) /\ Falsy(q.current_alert)))

\* loadItems has just read the text saveItems wrote for the page
Reparsed == last.kind = "loadItems" /\ last.pre.wiki = saveItems(last.pre.page)

\* C16: the text saveItems writes for a page, reparsed by loadItems, gives
\* the same alert (an empty alert text counting as none) and the same
\* items in the same order; after addItem("hello") on an empty page it
\* gives the one item for "hello" and no alert; and the saved text is the
\* marker line (if there is an alert), a blank line, then the items in the
\* order of the list, newest first.
C16_RoundTrip ==
    /\ Reparsed => SamePage(status_page, last.pre.page)
    /\ (Reparsed /\ last.pre.page = addItem(NewPage, <<"hello">>)) =>
          /\ status_page.items = << <<timestamp, " ", "hello">> >>
          /\ status_page.current_alert.isNone
    /\ last.kind = "saveItems" =>
          wiki = (IF truthy(status_page.current_alert)
                  THEN <<"{{CI Alert|">> \o status_page.current_alert.val
                       \o <<"}}", "\n", "\n">>
                  ELSE <<>>)
                 \o item_lines(status_page.items)

----------------------------------------------------------------------------
(* C20 *)

----------------------------------------------------------------------------
(* C21 *)

\* the report of a topic the bot has set for an alert has just been handled
AlertEcho == last.kind = "topic" /\ last.nick = "ChanServ" /\ last.verb = "alert"

\* C21: whatever the order in which alert commands and the reports of the
\* topics set for them arrive, the report of a topic the bot itself set
\* for an alert is never stored in topics.
C21_AlertEchoNeverStored ==
    AlertEcho => topics = last.pre.topics

====
